---------------------------- MODULE Spec2Model ----------------------------
(***************************************************************************)
(* The ".strings" line parser of source_analysis.py:                       *)
(*   - the line grammar: the nine regular expressions of LocalizedString   *)
(*     and the class methods that apply them to one line;                  *)
(*   - the state machine LocalizedStringLineParser.parse_line;             *)
(*   - the driver parse_file, which feeds every line of a file to one      *)
(*     parser and folds the returned entries into a dictionary;            *)
(*   - two parsers of their own, fed the lines of the same file;           *)
(*   - read_file_encoding and the part of analyse_source that calls        *)
(*     parse_file on every .strings file and writes the report;            *)
(*   - LocalizedString objects and their comparisons;                      *)
(*   - the part of analyse_source that groups the strings of source        *)
(*     files, xib files and storyboards by class.                          *)
(*                                                                         *)
(* A text is a sequence of one-character strings.  Python's None is the    *)
(* one-element sequence None, an attribute that was never assigned is      *)
(* Unset; neither is a text, because every element of a text is a single   *)
(* character.                                                              *)
(***************************************************************************)
EXTENDS Integers, Sequences, FiniteSets, TLC

VARIABLES parser, fed, out, localized_strings, pc, instances, run, entries,
          analysis

vars ==
    <<parser, fed, out, localized_strings, pc, instances, run, entries,
      analysis>>

--------------------------------------------------------------------------
(* Characters and texts *)

Q == "\""
NL == "\n"
SP == " "

None == <<"None">>
Unset == <<"Unset">>

IsText(t) == t # None /\ t # Unset

\* \w without re.UNICODE: [a-zA-Z0-9_]
WordChars ==
    {"a","b","c","d","e","f","g","h","i","j","k","l","m","n","o","p","q","r",
     "s","t","u","v","w","x","y","z","A","B","C","D","E","F","G","H","I","J",
     "K","L","M","N","O","P","Q","R","S","T","U","V","W","X","Y","Z","0","1",
     "2","3","4","5","6","7","8","9","_"}

\* \s without re.UNICODE: [ \t\n\r\f\v]
SpaceChars == {" ", "\t", "\n", "\r", "\f"}

Max(S) == CHOOSE x \in S : \A y \in S : y <= x

--------------------------------------------------------------------------
(* Pieces of the regular expressions.  A position p is the index of the    *)
(* next character to consume; Len(line) + 1 is the end of the line.        *)

\* '.' matches every character but the line break (no re.DOTALL)
Dots(line, a, b) == \A i \in a..b : line[i] # NL

\* '$' without re.MULTILINE: the end, or just before a final line break
AtEnd(line, p) ==
    \/ p = Len(line) + 1
    \/ p = Len(line) /\ line[p] = NL

\* a literal piece of the expression at position p
Lit(line, p, lit) ==
    /\ p >= 1
    /\ p + Len(lit) - 1 <= Len(line)
    /\ SubSeq(line, p, p + Len(lit) - 1) = lit

\* ' ?' before a piece that never starts with a space: the space is taken
\* when there is one (leaving it out would make the next piece fail on it)
OptSpace(line, p) == IF Lit(line, p, <<SP>>) THEN p + 1 ELSE p

\* '^\w*' before '/': the word characters at the start are all taken
WordPrefix(line) ==
    Max({n \in 0..Len(line) : \A i \in 1..n : line[i] \in WordChars})

\* '\w*$' from position p
WordsToEnd(line, p) ==
    \E q \in p..(Len(line) + 1) :
        /\ \A i \in p..(q - 1) : line[i] \in WordChars
        /\ AtEnd(line, q)

\* '\s*$' from position p
SpacesToEnd(line, p) ==
    \E q \in p..(Len(line) + 1) :
        /\ \A i \in p..(q - 1) : line[i] \in SpaceChars
        /\ AtEnd(line, q)

\* '^"(?P<key>.+)" ?= ?"' with the key ending at e: the position after the
\* quote that opens the value, 0 when the head does not match
HeadEnd(line, e) ==
    IF ~(Lit(line, 1, <<Q>>) /\ e >= 2 /\ Dots(line, 2, e)
         /\ Lit(line, e + 1, <<Q>>)
         /\ Lit(line, OptSpace(line, e + 2), <<"=">>)
         /\ Lit(line, OptSpace(line, OptSpace(line, e + 2) + 1), <<Q>>))
    THEN 0
    ELSE OptSpace(line, OptSpace(line, e + 2) + 1) + 1

\* '" ?; ?' from the quote at position p: the position after it, 0 when
\* it does not match
SemiEnd(line, p) ==
    IF Lit(line, p, <<Q>>) /\ Lit(line, OptSpace(line, p + 1), <<";">>)
    THEN OptSpace(line, OptSpace(line, p + 1) + 1)
    ELSE 0

\* A greedy group '(.+)' that starts at s (0: the expression failed before
\* it), rests being the positions e >= 1 at which a group may end so that
\* the rest of the expression matches from e + 1: the ends the group can
\* have.  The engine gives the characters of a group back one at a time, so
\* the group it reports ends at the largest of them.
GroupEnds(line, s, rests) ==
    IF s = 0 THEN {}
    ELSE {e \in rests : e >= s /\ Dots(line, s, e)}

\* match.group(name) of that group, None when the expression did not match
Group(line, s, ends) ==
    IF ends = {} THEN None ELSE SubSeq(line, s, Max(ends))

\* An expression with one group, which starts at s
OneGroup(line, s, rests) == Group(line, s, GroupEnds(line, s, rests))

\* An expression '^"(?P<key>.+)" ?= ?"(?P<value>.+)' and more, rests being
\* the ends of a value after which the rest matches: the key is the longest
\* one for which any value matches, the value the longest for that key.
\* <<end of key, start of value, end of value>>, or three 0.
ValueEnds(line, e, rests) == GroupEnds(line, HeadEnd(line, e), rests)

KeyEnds(line, rests) ==
    {e \in 2..Len(line) : ValueEnds(line, e, rests) # {}}

KeyValueAt(line, keys, rests) ==
    IF keys = {} THEN <<0, 0, 0>>
    ELSE <<Max(keys), HeadEnd(line, Max(keys)),
           Max(ValueEnds(line, Max(keys), rests))>>

KeyValue(line, rests) == KeyValueAt(line, KeyEnds(line, rests), rests)

\* (match.group('key'), match.group('value')) of such a match
PairGroups(line, m) ==
    IF m[1] = 0 THEN <<None, None>>
    ELSE <<SubSeq(line, 2, m[1]), SubSeq(line, m[2], m[3])>>

--------------------------------------------------------------------------
(* The line grammar: LocalizedString's class methods *)

\* '^\w*/\* ' : where the comment group starts, 0 when it does not match
CommentStart(line, w) ==
    IF Lit(line, w + 1, <<"/", "*", SP>>) THEN w + 4 ELSE 0

\* COMMENT_EXPR  ^\w*/\* (?P<comment>.+) \*/\w*$
parse_comment(line) ==
    OneGroup(line, CommentStart(line, WordPrefix(line)),
             {e \in 1..Len(line) : /\ Lit(line, e + 1, <<SP, "*", "/">>)
                                   /\ WordsToEnd(line, e + 4)})

\* COMMENT_MULTILINE_START  ^\w*/\* (?P<comment>.+)\w*$
parse_multiline_comment_start(line) ==
    OneGroup(line, CommentStart(line, WordPrefix(line)),
             {e \in 1..Len(line) : WordsToEnd(line, e + 1)})

\* COMMENT_MULTILINE_LINE  ^(?P<comment>.+)$
parse_multiline_comment_line(line) ==
    OneGroup(line, 1, {e \in 1..Len(line) : AtEnd(line, e + 1)})

\* COMMENT_MULTILINE_END  ^(?P<comment>.+)\*/\s*$
parse_multiline_comment_end(line) ==
    OneGroup(line, 1,
             {e \in 1..Len(line) : /\ Lit(line, e + 1, <<"*", "/">>)
                                   /\ SpacesToEnd(line, e + 3)})

\* LOCALIZED_STRING_EXPR  ^"(?P<key>.+)" ?= ?"(?P<value>.+)";$
\* <<key, value>>, <<None, None>> when the line does not match
parse_localized_pair(line) ==
    PairGroups(line,
               KeyValue(line,
                        {f \in 1..Len(line) :
                             /\ Lit(line, f + 1, <<Q, ";">>)
                             /\ AtEnd(line, f + 3)}))

\* LOCALIZED_STRING_MULTILINE_START_EXPR  ^"(?P<key>.+)" ?= ?"(?P<value>.+)$
parse_multiline_start(line) ==
    PairGroups(line,
               KeyValue(line, {f \in 1..Len(line) : AtEnd(line, f + 1)}))

\* LOCALIZED_STRING_MULTILINE_LINE_EXPR  ^(?P<value>.+)$
parse_multiline_line(line) ==
    OneGroup(line, 1, {e \in 1..Len(line) : AtEnd(line, e + 1)})

\* LOCALIZED_STRING_MULTILINE_END_EXPR  ^(?P<value>.+)" ?; ?$
parse_multiline_end(line) ==
    OneGroup(line, 1,
             {e \in 1..Len(line) : /\ SemiEnd(line, e + 1) # 0
                                   /\ AtEnd(line, SemiEnd(line, e + 1))})

\* '" ?; ?/\* ' after a value that ends at f: where the comment group
\* starts, 0 when it does not match
TrailingStart(line, f) ==
    IF SemiEnd(line, f + 1) # 0
       /\ Lit(line, SemiEnd(line, f + 1), <<"/", "*", SP>>)
    THEN SemiEnd(line, f + 1) + 3
    ELSE 0

\* '(?P<comment>.+) \*/$' after it
TrailingComment(line, f) ==
    OneGroup(line, TrailingStart(line, f),
             {g \in 1..Len(line) : /\ Lit(line, g + 1, <<SP, "*", "/">>)
                                   /\ AtEnd(line, g + 4)})

TrailingGroups(line, m) ==
    IF m[1] = 0 THEN <<None, None, None>>
    ELSE <<SubSeq(line, 2, m[1]), SubSeq(line, m[2], m[3]),
           TrailingComment(line, m[3])>>

\* LOCALIZED_STRING_TRAILING_COMMENT_EXPR
\*   ^"(?P<key>.+)" ?= ?"(?P<value>.+)" ?; ?/\* (?P<comment>.+) \*/$
\* <<key, value, comment>>, three None when the line does not match
parse_trailing_comment(line) ==
    TrailingGroups(line,
                   KeyValue(line,
                            {f \in 1..Len(line) :
                                 TrailingComment(line, f) # None}))

--------------------------------------------------------------------------
(* LocalizedString objects and the parser object *)

\* LocalizedString.__init__
LocalizedString(key, value, comment) ==
    [key |-> key, value |-> value, comment |-> comment]

\* what parse_line hands back: one LocalizedString, or None
Nothing == <<>>
Returned(string) == <<string>>

ParseStates ==
    [COMMENT |-> 1, STRING |-> 2, TRAILING_COMMENT |-> 3,
     STRING_MULTILINE |-> 4, COMMENT_MULTILINE |-> 5]

\* LocalizedStringLineParser.__init__: comment_partial and value_partial
\* are not assigned by the constructor
NewParser ==
    [parse_state |-> ParseStates.COMMENT,
     key |-> None, value |-> None, comment |-> None,
     comment_partial |-> Unset, value_partial |-> Unset]

\* The outcome of one call: the parser afterwards, the returned value, and
\* whether the call raised (AttributeError on an unassigned attribute,
\* TypeError on None + '\n'); a call that raises returns nothing.
Outcome(self, ret) == [self |-> self, ret |-> ret, raised |-> FALSE]
Raise(self) == [self |-> self, ret |-> Nothing, raised |-> TRUE]

\* mutant: the fields are cleared before the LocalizedString is built
build_localizedString_cleared(self) ==
    Outcome([self EXCEPT !.key = None, !.value = None, !.comment = None],
            Returned(LocalizedString(None, None, None)))

\* mutant: the pending comment outlives the entry built from it
build_localizedString_keeps_comment(self) ==
    Outcome([self EXCEPT !.key = None, !.value = None],
            Returned(LocalizedString(self.key, self.value, self.comment)))

build_localizedString(self) ==
    Outcome([self EXCEPT !.key = None, !.value = None, !.comment = None],
            Returned(LocalizedString(self.key, self.value, self.comment)))

\* mutant: the first line of a multi-line comment is not stored
COMMENT_line_no_store(self, trailing, comment, comment_partial) ==
    IF trailing[1] # None /\ trailing[2] # None /\ trailing[3] # None
    THEN build_localizedString(
             [self EXCEPT !.key = trailing[1], !.value = trailing[2],
                          !.comment = trailing[3]])
    ELSE IF comment # None
    THEN Outcome([self EXCEPT !.key = trailing[1], !.value = trailing[2],
                              !.comment = comment,
                              !.parse_state = ParseStates.STRING],
                 Nothing)
    ELSE Outcome([self EXCEPT
                    !.key = trailing[1], !.value = trailing[2],
                    !.comment = comment,
                    !.parse_state = IF comment_partial # None
                                    THEN ParseStates.COMMENT_MULTILINE
                                    ELSE self.parse_state],
                 Nothing)

\* mutant: after an entry with a trailing comment the parser waits for
\* an entry line
COMMENT_line_then_STRING(self, trailing, comment, comment_partial) ==
    IF trailing[1] # None /\ trailing[2] # None /\ trailing[3] # None
    THEN build_localizedString(
             [self EXCEPT !.key = trailing[1], !.value = trailing[2],
                          !.comment = trailing[3],
                          !.parse_state = ParseStates.STRING])
    ELSE IF comment # None
    THEN Outcome([self EXCEPT !.key = trailing[1], !.value = trailing[2],
                              !.comment = comment,
                              !.parse_state = ParseStates.STRING],
                 Nothing)
    ELSE Outcome([self EXCEPT
                    !.key = trailing[1], !.value = trailing[2],
                    !.comment = comment,
                    !.comment_partial = comment_partial,
                    !.parse_state = IF comment_partial # None
                                    THEN ParseStates.COMMENT_MULTILINE
                                    ELSE self.parse_state],
                 Nothing)

\* parse_state == ParseStates['COMMENT'], the three matchers applied
COMMENT_line(self, trailing, comment, comment_partial) ==
    IF trailing[1] # None /\ trailing[2] # None /\ trailing[3] # None
    THEN build_localizedString(
             [self EXCEPT !.key = trailing[1], !.value = trailing[2],
                          !.comment = trailing[3]])
    ELSE IF comment # None
    THEN Outcome([self EXCEPT !.key = trailing[1], !.value = trailing[2],
                              !.comment = comment,
                              !.parse_state = ParseStates.STRING],
                 Nothing)
    ELSE Outcome([self EXCEPT
                    !.key = trailing[1], !.value = trailing[2],
                    !.comment = comment,
                    !.comment_partial = comment_partial,
                    !.parse_state = IF comment_partial # None
                                    THEN ParseStates.COMMENT_MULTILINE
                                    ELSE self.parse_state],
                 Nothing)

\* mutant: the initial state also accepts a plain entry line
parse_line_COMMENT_or_entry(self, line) ==
    IF parse_localized_pair(line)[1] # None
    THEN build_localizedString(
             [self EXCEPT !.key = parse_localized_pair(line)[1],
                          !.value = parse_localized_pair(line)[2],
                          !.comment = None])
    ELSE COMMENT_line(self, parse_trailing_comment(line),
                      parse_comment(line),
                      parse_multiline_comment_start(line))

parse_line_COMMENT(self, line) ==
    COMMENT_line(self, parse_trailing_comment(line), parse_comment(line),
                 parse_multiline_comment_start(line))

\* mutant: the last line of the comment is joined without a line break
COMMENT_MULTILINE_line_no_break(self, comment_end, comment_line) ==
    IF comment_end # None
    THEN IF ~IsText(self.comment_partial)
         THEN Raise(self)
         ELSE Outcome([self EXCEPT
                         !.comment = self.comment_partial \o comment_end,
                         !.comment_partial = None,
                         !.parse_state = ParseStates.STRING],
                      Nothing)
    ELSE IF comment_line # None
    THEN IF ~IsText(self.comment_partial)
         THEN Raise(self)
         ELSE Outcome([self EXCEPT
                         !.comment_partial = self.comment_partial
                             \o <<NL>> \o comment_line],
                      Nothing)
    ELSE Outcome(self, Nothing)

\* mutant: the fragment is kept when the comment is complete
COMMENT_MULTILINE_line_keeps_fragment(self, comment_end, comment_line) ==
    IF comment_end # None
    THEN IF ~IsText(self.comment_partial)
         THEN Raise(self)
         ELSE Outcome([self EXCEPT
                         !.comment = self.comment_partial \o <<NL>>
                                         \o comment_end,
                         !.parse_state = ParseStates.STRING],
                      Nothing)
    ELSE IF comment_line # None
    THEN IF ~IsText(self.comment_partial)
         THEN Raise(self)
         ELSE Outcome([self EXCEPT
                         !.comment_partial = self.comment_partial
                             \o <<NL>> \o comment_line],
                      Nothing)
    ELSE Outcome(self, Nothing)

\* mutant: a line that no matcher takes still adds a line break to the
\* stored fragment
COMMENT_MULTILINE_line_keeps_blank(self, comment_end, comment_line) ==
    IF comment_end # None
    THEN IF ~IsText(self.comment_partial)
         THEN Raise(self)
         ELSE Outcome([self EXCEPT
                         !.comment = self.comment_partial \o <<NL>>
                                         \o comment_end,
                         !.comment_partial = None,
                         !.parse_state = ParseStates.STRING],
                      Nothing)
    ELSE IF comment_line # None
    THEN IF ~IsText(self.comment_partial)
         THEN Raise(self)
         ELSE Outcome([self EXCEPT
                         !.comment_partial = self.comment_partial
                             \o <<NL>> \o comment_line],
                      Nothing)
    ELSE IF ~IsText(self.comment_partial)
    THEN Raise(self)
    ELSE Outcome([self EXCEPT
                    !.comment_partial = self.comment_partial \o <<NL>>],
                 Nothing)

\* parse_state == ParseStates['COMMENT_MULTILINE']
COMMENT_MULTILINE_line(self, comment_end, comment_line) ==
    IF comment_end # None
    THEN IF ~IsText(self.comment_partial)
         THEN Raise(self)
         ELSE Outcome([self EXCEPT
                         !.comment = self.comment_partial \o <<NL>>
                                         \o comment_end,
                         !.comment_partial = None,
                         !.parse_state = ParseStates.STRING],
                      Nothing)
    ELSE IF comment_line # None
    THEN IF ~IsText(self.comment_partial)
         THEN Raise(self)
         ELSE Outcome([self EXCEPT
                         !.comment_partial = self.comment_partial
                             \o <<NL>> \o comment_line],
                      Nothing)
    ELSE Outcome(self, Nothing)

parse_line_COMMENT_MULTILINE(self, line) ==
    COMMENT_MULTILINE_line(self, parse_multiline_comment_end(line),
                           parse_multiline_comment_line(line))

\* parse_state == ParseStates['TRAILING_COMMENT']
TRAILING_COMMENT_line(self, comment) ==
    IF comment # None
    THEN build_localizedString(
             [self EXCEPT !.comment = comment,
                          !.parse_state = ParseStates.COMMENT])
    ELSE Outcome([self EXCEPT !.comment = comment], Nothing)

parse_line_TRAILING_COMMENT(self, line) ==
    TRAILING_COMMENT_line(self, parse_comment(line))

\* mutant: the parser keeps waiting for an entry line after it returned one
STRING_line_stays(self, pair, start) ==
    IF pair[1] # None /\ pair[2] # None
    THEN build_localizedString([self EXCEPT !.key = pair[1],
                                            !.value = pair[2]])
    ELSE IF start[1] # None /\ start[2] # None
    THEN Outcome([self EXCEPT !.key = start[1], !.value_partial = start[2],
                              !.parse_state = ParseStates.STRING_MULTILINE,
                              !.value = None],
                 Nothing)
    ELSE Outcome([self EXCEPT !.key = start[1], !.value = pair[2],
                              !.value_partial = start[2]],
                 Nothing)

\* mutant: a line that is no entry drops the pending comment
STRING_line_drops_comment(self, pair, start) ==
    IF pair[1] # None /\ pair[2] # None
    THEN build_localizedString(
             [self EXCEPT !.key = pair[1], !.value = pair[2],
                          !.parse_state = ParseStates.COMMENT])
    ELSE IF start[1] # None /\ start[2] # None
    THEN Outcome([self EXCEPT !.key = start[1], !.value_partial = start[2],
                              !.parse_state = ParseStates.STRING_MULTILINE,
                              !.value = None],
                 Nothing)
    ELSE Outcome([self EXCEPT !.key = start[1], !.value = pair[2],
                              !.value_partial = start[2],
                              !.comment = None],
                 Nothing)

\* mutant: a line that is no entry makes the parser give up the comment
\* and wait for a comment again
STRING_line_abandons(self, pair, start) ==
    IF pair[1] # None /\ pair[2] # None
    THEN build_localizedString(
             [self EXCEPT !.key = pair[1], !.value = pair[2],
                          !.parse_state = ParseStates.COMMENT])
    ELSE IF start[1] # None /\ start[2] # None
    THEN Outcome([self EXCEPT !.key = start[1], !.value_partial = start[2],
                              !.parse_state = ParseStates.STRING_MULTILINE,
                              !.value = None],
                 Nothing)
    ELSE Outcome([self EXCEPT !.key = start[1], !.value = pair[2],
                              !.value_partial = start[2],
                              !.comment = None,
                              !.parse_state = ParseStates.COMMENT],
                 Nothing)

\* mutant: the first line of a multi-line value forgets the comment
STRING_line_start_clears_comment(self, pair, start) ==
    IF pair[1] # None /\ pair[2] # None
    THEN build_localizedString(
             [self EXCEPT !.key = pair[1], !.value = pair[2],
                          !.parse_state = ParseStates.COMMENT])
    ELSE IF start[1] # None /\ start[2] # None
    THEN Outcome([self EXCEPT !.key = start[1], !.value_partial = start[2],
                              !.parse_state = ParseStates.STRING_MULTILINE,
                              !.value = None, !.comment = None],
                 Nothing)
    ELSE Outcome([self EXCEPT !.key = start[1], !.value = pair[2],
                              !.value_partial = start[2]],
                 Nothing)

\* parse_state == ParseStates['STRING']
STRING_line(self, pair, start) ==
    IF pair[1] # None /\ pair[2] # None
    THEN build_localizedString(
             [self EXCEPT !.key = pair[1], !.value = pair[2],
                          !.parse_state = ParseStates.COMMENT])
    ELSE IF start[1] # None /\ start[2] # None
    THEN Outcome([self EXCEPT !.key = start[1], !.value_partial = start[2],
                              !.parse_state = ParseStates.STRING_MULTILINE,
                              !.value = None],
                 Nothing)
    ELSE Outcome([self EXCEPT !.key = start[1], !.value = pair[2],
                              !.value_partial = start[2]],
                 Nothing)

\* mutant: a comment line replaces the pending comment
parse_line_STRING_takes_comment(self, line) ==
    IF parse_comment(line) # None
    THEN Outcome([self EXCEPT !.comment = parse_comment(line)], Nothing)
    ELSE STRING_line(self, parse_localized_pair(line),
                     parse_multiline_start(line))

parse_line_STRING(self, line) ==
    STRING_line(self, parse_localized_pair(line), parse_multiline_start(line))

\* mutant: a completed multi-line value waits for a trailing comment
STRING_MULTILINE_line_waits(self, value_end, value_part) ==
    IF value_end # None
    THEN IF ~IsText(self.value_partial)
         THEN Raise(self)
         ELSE build_localizedString(
                  [self EXCEPT
                     !.value = self.value_partial \o <<NL>> \o value_end,
                     !.value_partial = None,
                     !.parse_state = ParseStates.TRAILING_COMMENT])
    ELSE IF value_part # None
    THEN IF ~IsText(self.value_partial)
         THEN Raise(self)
         ELSE Outcome([self EXCEPT
                         !.value_partial = self.value_partial
                             \o <<NL>> \o value_part],
                      Nothing)
    ELSE Outcome(self, Nothing)

\* mutant: a line in between is put in front of the stored fragment
STRING_MULTILINE_line_prepends(self, value_end, value_part) ==
    IF value_end # None
    THEN IF ~IsText(self.value_partial)
         THEN Raise(self)
         ELSE build_localizedString(
                  [self EXCEPT
                     !.value = self.value_partial \o <<NL>> \o value_end,
                     !.value_partial = None,
                     !.parse_state = ParseStates.COMMENT])
    ELSE IF value_part # None
    THEN IF ~IsText(self.value_partial)
         THEN Raise(self)
         ELSE Outcome([self EXCEPT
                         !.value_partial = value_part \o <<NL>>
                             \o self.value_partial],
                      Nothing)
    ELSE Outcome(self, Nothing)

\* mutant: a line is taken as a line in between before it is tried as the
\* last line
STRING_MULTILINE_line_continues_first(self, value_end, value_part) ==
    IF value_part # None
    THEN IF ~IsText(self.value_partial)
         THEN Raise(self)
         ELSE Outcome([self EXCEPT
                         !.value_partial = self.value_partial
                             \o <<NL>> \o value_part],
                      Nothing)
    ELSE IF value_end # None
    THEN IF ~IsText(self.value_partial)
         THEN Raise(self)
         ELSE build_localizedString(
                  [self EXCEPT
                     !.value = self.value_partial \o <<NL>> \o value_end,
                     !.value_partial = None,
                     !.parse_state = ParseStates.COMMENT])
    ELSE Outcome(self, Nothing)

\* mutant: the last line of a multi-line value returns nothing and leaves
\* the parser waiting for a trailing comment
STRING_MULTILINE_line_awaits_trailing(self, value_end, value_part) ==
    IF value_end # None
    THEN IF ~IsText(self.value_partial)
         THEN Raise(self)
         ELSE Outcome([self EXCEPT
                         !.value = self.value_partial \o <<NL>>
                                       \o value_end,
                         !.value_partial = None,
                         !.parse_state = ParseStates.TRAILING_COMMENT],
                      Nothing)
    ELSE IF value_part # None
    THEN IF ~IsText(self.value_partial)
         THEN Raise(self)
         ELSE Outcome([self EXCEPT
                         !.value_partial = self.value_partial
                             \o <<NL>> \o value_part],
                      Nothing)
    ELSE Outcome(self, Nothing)

\* parse_state == ParseStates['STRING_MULTILINE']
STRING_MULTILINE_line(self, value_end, value_part) ==
    IF value_end # None
    THEN IF ~IsText(self.value_partial)
         THEN Raise(self)
         ELSE build_localizedString(
                  [self EXCEPT
                     !.value = self.value_partial \o <<NL>> \o value_end,
                     !.value_partial = None,
                     !.parse_state = ParseStates.COMMENT])
    ELSE IF value_part # None
    THEN IF ~IsText(self.value_partial)
         THEN Raise(self)
         ELSE Outcome([self EXCEPT
                         !.value_partial = self.value_partial
                             \o <<NL>> \o value_part],
                      Nothing)
    ELSE Outcome(self, Nothing)

parse_line_STRING_MULTILINE(self, line) ==
    STRING_MULTILINE_line(self, parse_multiline_end(line),
                          parse_multiline_line(line))

\* LocalizedStringLineParser.parse_line
parse_line(self, line) ==
    IF self.parse_state = ParseStates.COMMENT
    THEN parse_line_COMMENT(self, line)
    ELSE IF self.parse_state = ParseStates.COMMENT_MULTILINE
    THEN parse_line_COMMENT_MULTILINE(self, line)
    ELSE IF self.parse_state = ParseStates.TRAILING_COMMENT
    THEN parse_line_TRAILING_COMMENT(self, line)
    ELSE IF self.parse_state = ParseStates.STRING
    THEN parse_line_STRING(self, line)
    ELSE IF self.parse_state = ParseStates.STRING_MULTILINE
    THEN parse_line_STRING_MULTILINE(self, line)
    ELSE Outcome(self, Nothing)

--------------------------------------------------------------------------
(* parse_file: one parser per file, every line fed in file order, the      *)
(* returned entries folded into a dictionary (a set of <<key, value>>      *)
(* pairs with one pair per key).                                           *)

\* mutant: a key that is in the dictionary keeps its first value
SetItem_keeps_first(strings, key, value) ==
    IF \E kv \in strings : kv[1] = key
    THEN strings
    ELSE strings \cup {<<key, value>>}

\* localized_strings[key] = value
SetItem(strings, key, value) ==
    {kv \in strings : kv[1] # key} \cup {<<key, value>>}

\* "if localized_string is not None: localized_strings[...] = ..."
Collect(strings, r) ==
    [self |-> r.self, ret |-> r.ret, raised |-> r.raised,
     strings |-> IF r.ret # Nothing
                 THEN SetItem(strings, r.ret[1].key, r.ret[1].value)
                 ELSE strings]

\* the body of "for line in file_contents"
parse_file_line(self, strings, line) ==
    Collect(strings, parse_line(self, line))

\* mutant: the pending key is flushed with its fragment at the end
parse_file_return_flush(self, strings) ==
    IF IsText(self.key) /\ IsText(self.value_partial)
    THEN SetItem(strings, self.key, self.value_partial)
    ELSE strings

\* "return localized_strings" once the lines are exhausted: the parser is
\* not asked for anything more
parse_file_return(self, strings) == strings

--------------------------------------------------------------------------
(* Two LocalizedStringLineParser objects.  Every attribute parse_line     *)
(* reads or writes is an attribute of self, set by __init__ on the object *)
(* itself; the compiled expressions of LocalizedString are shared and     *)
(* never written.                                                          *)

\* an object after LocalizedStringLineParser(), with the lines fed to it
\* and the values its calls returned
NewInstance ==
    [parser |-> NewParser, fed |-> << >>, out |-> << >>, raised |-> FALSE]

\* mutant: the attributes belong to the class, both objects use the
\* first one's
parse_line_on_shared(objects, i, line) ==
    parse_line(objects[1].parser, line)

\* objects[i].parse_line(line)
parse_line_on(objects, i, line) ==
    parse_line(objects[i].parser, line)

\* the object after the call, r being the call's outcome
AfterCall(object, line, r) ==
    [parser |-> r.self, fed |-> Append(object.fed, line),
     out |-> Append(object.out, r.ret), raised |-> r.raised]

--------------------------------------------------------------------------
(* LocalizedString objects: comparison and is_raw.  The objects built so  *)
(* far are kept in a sequence; an object is what it is by its place in    *)
(* the sequence, whatever its fields hold.                                 *)

\* LocalizedString.__eq__ for two LocalizedString objects
__eq__(self, other) ==
    self.key = other.key /\ self.value = other.value
        /\ self.comment = other.comment

\* LocalizedString.__neq__, a method Python calls for no operator
__neq__(self, other) == ~__eq__(self, other)

\* heap[i] == heap[j]: Python calls __eq__
Equal(heap, i, j) == __eq__(heap[i], heap[j])

\* heap[i] != heap[j]: the class defines neither __ne__ nor __cmp__, and
\* Python 2 does not derive != from __eq__: the objects are compared by
\* identity, two objects are unequal unless they are the same object
NotEqual(heap, i, j) == i # j

\* mutant: the value is compared with the key without regard to case
is_raw_ignores_case(self) ==
    \/ self.value = self.key
    \/ /\ IsText(self.value) /\ IsText(self.key)
       /\ Len(self.value) = Len(self.key)
       /\ \A n \in 1..Len(self.key) :
              {self.value[n], self.key[n]} \in {{"k"}, {"K"}, {"k", "K"}}

\* LocalizedString.is_raw
is_raw(self) == self.value = self.key

\* no LocalizedString built, nothing compared
NoEntries == [heap |-> << >>, compared |-> Nothing, raw |-> Nothing]

\* the result of comparing heap[i] with heap[j] in the three ways
Comparison(heap, i, j) ==
    [i |-> i, j |-> j,
     eq |-> Equal(heap, i, j),
     ne |-> NotEqual(heap, i, j),
     neq |-> __neq__(heap[i], heap[j])]

--------------------------------------------------------------------------
(* Encodings.  A file is the set of encodings under which all of it       *)
(* decodes, and its lines.                                                 *)

ENCODINGS == <<"utf-8", "utf-16", "utf-16-le", "utf-16-be">>

\* Python's False, which try_encoding and read_file_encoding return
False == "False"

\* io.open(file_path, 'r', encoding=encoding).read() either returns or
\* raises UnicodeDecodeError, which is caught
try_encoding(file, encoding) ==
    IF encoding \in file.decodes THEN encoding ELSE False

\* "for encoding in ENCODINGS" from the i-th on
RECURSIVE read_file_encoding_from(_, _)
read_file_encoding_from(file, i) ==
    IF i > Len(ENCODINGS) THEN False
    ELSE IF try_encoding(file, ENCODINGS[i]) # False
    THEN try_encoding(file, ENCODINGS[i])
    ELSE read_file_encoding_from(file, i + 1)

read_file_encoding(file) == read_file_encoding_from(file, 1)

\* the whole of parse_file on a file that was opened: the dictionary
RECURSIVE parse_lines(_, _, _)
parse_lines(self, strings, lines) ==
    IF lines = << >> THEN parse_file_return(self, strings)
    ELSE parse_lines(parse_file_line(self, strings, lines[1]).self,
                     parse_file_line(self, strings, lines[1]).strings,
                     SubSeq(lines, 2, Len(lines)))

\* parse_file, encoding being what read_file_encoding returned:
\* io.open(file_path, mode='r', encoding=False) raises TypeError, which
\* nothing catches
parse_file(file, encoding) ==
    IF encoding = False
    THEN [raised |-> TRUE, strings |-> {}]
    ELSE [raised |-> FALSE, strings |-> parse_lines(NewParser, {}, file.lines)]

\* analyse_source before the first .strings file: no file parsed, no
\* report written
NewRun ==
    [files |-> << >>, class_strings |-> << >>, pc |-> "files",
     report |-> Nothing]

\* one turn of "for temp_file in os.listdir(temp_folder_path)", r being
\* what parse_file did: its strings are kept, or the exception ends
\* analyse_source
AfterFile(this, file, r) ==
    IF r.raised
    THEN [this EXCEPT !.files = Append(this.files, file), !.pc = "raised"]
    ELSE [this EXCEPT !.files = Append(this.files, file),
                      !.class_strings = Append(this.class_strings, r.strings)]

\* the end of analyse_source: the report is written
AfterReport(this) ==
    [this EXCEPT !.pc = "written", !.report = Returned(this.class_strings)]

--------------------------------------------------------------------------
(* analyse_source: the strings of every class *)

\* classes is a dictionary from a class name to the list of its string
\* items; class_name in classes
HasItem(classes, class_name) == \E kv \in classes : kv[1] = class_name

\* class_strings = classes.get(class_name), and [] if that is None
class_strings_of(classes, class_name) ==
    IF HasItem(classes, class_name)
    THEN (CHOOSE kv \in classes : kv[1] = class_name)[2]
    ELSE << >>

string_item(key, value, file) ==
    [key |-> key, value |-> value, file |-> file]

\* the elements of the node that have a text, in the order they are found
Titled(node) == SelectSeq(node, LAMBDA element : element.text # "")

\* out_items after find_strings_in_ib_file(node, filename, out_items): the
\* key of an element is its id and the name of its attribute
find_strings_in_ib_file(node, filename, out_items) ==
    out_items \o [i \in 1..Len(Titled(node)) |->
                     string_item(<<Titled(node)[i].id,
                                   Titled(node)[i].attribute>>,
                                 Titled(node)[i].text, filename)]

\* classes after one source file whose class is class_name and whose
\* .strings files gave class_strings
source_file(classes, class_name, class_strings) ==
    IF class_name # None /\ Len(class_strings) > 0
    THEN SetItem(classes, class_name, class_strings)
    ELSE classes

\* classes after an xib file: the strings are appended to the list of the
\* File's Owner class that classes holds; a list made for a class that
\* classes does not hold is not stored
xib_file(classes, file) ==
    IF file.owner = None
    THEN classes
    ELSE IF HasItem(classes, file.owner)
    THEN SetItem(classes, file.owner,
                 find_strings_in_ib_file(
                     file.elements, file.filename,
                     class_strings_of(classes, file.owner)))
    ELSE classes

\* the class of a view controller: its customClass, or
\* 'UIViewController(' + restore_id + ')', or None
view_controller_class(view_controller) ==
    IF view_controller.customClass # None
    THEN view_controller.customClass
    ELSE IF view_controller.restorationIdentifier # None
    THEN <<"UIViewController(">> \o view_controller.restorationIdentifier
             \o <<")">>
    ELSE IF view_controller.useStoryboardIdentifierAsRestorationIdentifier
                = "YES"
            /\ view_controller.storyboardIdentifier # None
    THEN <<"UIViewController(">> \o view_controller.storyboardIdentifier
             \o <<")">>
    ELSE None

\* classes after one view controller of a storyboard
view_controller_strings(classes, filename, class_name, elements) ==
    IF class_name = None
    THEN classes
    ELSE IF Len(find_strings_in_ib_file(
                    elements, filename,
                    class_strings_of(classes, class_name))) > 0
    THEN SetItem(classes, class_name,
                 find_strings_in_ib_file(
                     elements, filename,
                     class_strings_of(classes, class_name)))
    ELSE classes

\* classes after the view controllers of a storyboard
RECURSIVE storyboard_file(_, _, _)
storyboard_file(classes, filename, view_controllers) ==
    IF Len(view_controllers) = 0
    THEN classes
    ELSE storyboard_file(
             view_controller_strings(
                 classes, filename,
                 view_controller_class(Head(view_controllers)),
                 Head(view_controllers).elements),
             filename, Tail(view_controllers))

\* classes after one xib or storyboard file
ib_file(classes, file) ==
    IF file.localized_file = None
    THEN classes
    ELSE IF file.extension = "xib"
    THEN xib_file(classes, file)
    ELSE storyboard_file(classes, file.filename, file.view_controllers)

\* the groupings of the report: the name of every class and the key and
\* file of each of its strings
groupings_of(classes) ==
    {[name |-> kv[1],
      phrases |-> [i \in 1..Len(kv[2]) |->
                      [key |-> kv[2][i].key, file |-> kv[2][i].file]]] :
        kv \in classes}

\* analyse_source before the first source file
NewAnalysis ==
    [classes |-> {}, sources |-> 0, ib_files |-> << >>, pc |-> "sources",
     groupings |-> Nothing]

--------------------------------------------------------------------------
(* The lines fed to the parser *)

EntryLine(K, V) == <<Q>> \o K \o <<Q, SP, "=", SP, Q>> \o V \o <<Q, ";">>
CompactEntryLine(K, V) == <<Q>> \o K \o <<Q, "=", Q>> \o V \o <<Q, ";">>
CommentLine(C) == <<"/", "*", SP>> \o C \o <<SP, "*", "/">>
TrailingLine(K, V, C) == EntryLine(K, V) \o <<SP>> \o CommentLine(C)
ValueStartLine(K, V1) == <<Q>> \o K \o <<Q, SP, "=", SP, Q>> \o V1
ValueEndLine(V2) == V2 \o <<Q, ";">>
CommentStartLine(L1) == <<"/", "*", SP>> \o L1
CommentEndLine(L3) == L3 \o <<"*", "/">>

\* the same line as file_contents yields it, with its line break
WithBreak(line) == line \o <<NL>>

\* blank and whitespace-only lines
BlankLines == {<< >>, <<SP, SP>>, <<NL>>}

\* the texts the well-formed lines are made of: no quote, no line break,
\* no comment delimiter
Texts == {<<"k">>, <<"v">>, <<"c">>, <<"j">>, <<"u">>, <<"d">>, <<"w">>}

\* longest file fed under Spec
MaxLines == 4

\* Spec: well-formed and malformed lines of every kind
Lines ==
    BlankLines \cup
    {<<"x">>,
     CommentLine(<<"c">>),
     EntryLine(<<"k">>, <<"v">>),
     WithBreak(CompactEntryLine(<<"j">>, <<"j">>)),
     TrailingLine(<<"k">>, <<"u">>, <<"d">>),
     ValueStartLine(<<"k">>, <<"v">>),
     ValueEndLine(<<"w">>),
     CommentStartLine(<<"c">>),
     CommentEndLine(<<SP, "d", SP>>)}

\* longest file fed under SpecValue
MaxValueLines == 5

\* SpecValue: a comment, the first line of a multi-line value, lines in
\* between and a last line.  <<"a", Q, SP, ";">> is the line a" ; which
\* does not end in "; and <<"n", NL>> carries its line break.
ValueLines ==
    {CommentLine(<<"c">>),
     ValueStartLine(<<"k">>, <<"v">>),
     <<"m">>, <<SP, "n">>, <<"a", Q, SP, ";">>,
     ValueEndLine(<<"w">>)}

\* longest file fed under SpecComment
MaxCommentLines == 5

\* SpecComment: the first line of a multi-line comment, lines in between,
\* a last line and an entry.  <<"b", "*", "/", SP>> is the line b*/ with a
\* space after it, which does not end in */
CommentLines ==
    {CommentStartLine(<<"d">>),
     <<SP, "b">>, <<"x">>, <<"b", "*", "/", SP>>,
     CommentEndLine(<<SP, "c", SP>>),
     EntryLine(<<"k">>, <<"v">>)}

\* longest file fed under SpecPairs
MaxPairLines == 6

\* SpecPairs: comment lines and entry lines
PairLines ==
    {CommentLine(<<"c">>), CommentLine(<<"d">>),
     EntryLine(<<"k">>, <<"v">>), EntryLine(<<"j">>, <<"u">>)}

\* longest file fed to the two objects under SpecInstances
MaxSharedLines == 3

\* longest file fed under SpecClosing
MaxClosingLines == 5

\* SpecClosing: a comment, the first line of a multi-line value, and lines
\* that end in "; : entry lines with another key, with and without their
\* line break, the line "; and a last line of the value
ClosingLines ==
    {CommentLine(<<"c">>),
     ValueStartLine(<<"k">>, <<"v">>),
     EntryLine(<<"j">>, <<"u">>),
     WithBreak(CompactEntryLine(<<"j">>, <<"j">>)),
     <<Q, ";">>,
     ValueEndLine(<<"w">>)}

\* the entry line "K" = ""; whose value is empty
EmptyValueLine(K) == EntryLine(K, << >>)

\* longest file fed under SpecStart
MaxStartLines == 4

\* SpecStart: lines that hold a complete comment or a complete quoted
\* value, and the first and last lines of multi-line comments and values.
\* CommentLine(<<"c">>) \o <<SP>> is the line /* c */ with a space after it.
StartLines ==
    {CommentLine(<<"c">>),
     CommentLine(<<"c">>) \o <<SP>>,
     WithBreak(CommentLine(<<"d">>)),
     TrailingLine(<<"k">>, <<"u">>, <<"d">>),
     EmptyValueLine(<<"k">>),
     EntryLine(<<"j">>, <<"u">>),
     ValueStartLine(<<"k">>, <<"v">>),
     ValueEndLine(<<"w">>),
     CommentStartLine(<<"c">>),
     CommentEndLine(<<SP, "d", SP>>)}

\* most .strings files of one run under SpecRun
MaxFiles == 2

\* SpecRun: files that decode under any set of the encodings, with one
\* entry or two
Files ==
    [decodes : SUBSET {ENCODINGS[i] : i \in 1..Len(ENCODINGS)},
     lines : {<<TrailingLine(<<"k">>, <<"u">>, <<"d">>)>>,
              <<CommentLine(<<"c">>), EntryLine(<<"j">>, <<"v">>),
                TrailingLine(<<"k">>, <<"u">>, <<"d">>)>>}]

\* most LocalizedString objects built under SpecEntries
MaxObjects == 2

\* SpecEntries: keys and values that differ in case or in a space at the
\* end only, a value that was not given, a comment or none
EntryKeys == {<<"k">>, <<"K">>}
EntryValues == {<<"k">>, <<"K">>, <<"k", SP>>, None}
EntryComments == {None, <<"c">>}

\* most source files and most xib and storyboard files of one run under
\* SpecAnalysis
MaxSources == 1
MaxIbFiles == 2

\* SpecAnalysis: the classes A and B, a source file with strings or none
ClassNames == {<<"A">>, <<"B">>}
SourceStrings ==
    {<< >>, <<string_item(<<"k">>, <<"v">>, "Localizable.strings")>>}

\* a label with a text and a label without
Label == [id |-> "l1", attribute |-> "text", text |-> "Hi"]
EmptyLabel == [id |-> "l2", attribute |-> "text", text |-> ""]

\* an xib file V.xib: whether V.strings exists, the customClass of its
\* File's Owner, the elements under its root
Xib(localized_file, owner, elements) ==
    [extension |-> "xib", filename |-> "V.strings",
     localized_file |-> localized_file, owner |-> owner,
     elements |-> elements, view_controllers |-> << >>]

ViewController(customClass, restorationIdentifier, elements) ==
    [customClass |-> customClass,
     restorationIdentifier |-> restorationIdentifier,
     useStoryboardIdentifierAsRestorationIdentifier |-> "NO",
     storyboardIdentifier |-> None,
     elements |-> elements]

\* a storyboard M.storyboard with M.strings and its view controllers
Storyboard(view_controllers) ==
    [extension |-> "storyboard", filename |-> "M.strings",
     localized_file |-> <<"M.strings">>, owner |-> None,
     elements |-> << >>, view_controllers |-> view_controllers]

IbFiles ==
    {Xib(<<"V.strings">>, <<"A">>, <<Label>>),
     Xib(<<"V.strings">>, <<"B">>, <<Label>>),
     Xib(<<"V.strings">>, <<"B">>, <<EmptyLabel>>),
     Xib(<<"V.strings">>, None, <<Label>>),
     Xib(None, <<"B">>, <<Label>>),
     Storyboard(<<ViewController(<<"A">>, None, <<Label>>)>>),
     Storyboard(<<ViewController(<<"B">>, None, <<Label>>)>>),
     Storyboard(<<ViewController(None, <<"r">>, <<Label>>),
                  ViewController(<<"B">>, None, <<EmptyLabel>>)>>),
     Storyboard(<<[ViewController(None, None, <<Label>>) EXCEPT
                     !.useStoryboardIdentifierAsRestorationIdentifier
                         = "YES",
                     !.storyboardIdentifier = <<"s">>]>>),
     Storyboard(<<ViewController(None, None, <<Label>>)>>)}

--------------------------------------------------------------------------
(* The state machine *)

Init ==
    /\ parser = NewParser
    /\ fed = << >>
    /\ out = << >>
    /\ localized_strings = {}
    /\ pc = "reading"
    /\ instances = [i \in 1..2 |-> NewInstance]
    /\ run = NewRun
    /\ entries = NoEntries
    /\ analysis = NewAnalysis

\* one iteration of parse_file's loop on the next line of the file
FeedLine(line) ==
    /\ pc = "reading"
    /\ \E r \in {parse_file_line(parser, localized_strings, line)} :
           /\ parser' = r.self
           /\ out' = Append(out, r.ret)
           /\ localized_strings' = r.strings
           /\ pc' = IF r.raised THEN "raised" ELSE "reading"
    /\ fed' = Append(fed, line)
    /\ UNCHANGED <<instances, run, entries, analysis>>

\* the file has no more lines
EndOfFile ==
    /\ pc = "reading"
    /\ localized_strings' = parse_file_return(parser, localized_strings)
    /\ pc' = "done"
    /\ UNCHANGED <<parser, fed, out, instances, run, entries, analysis>>

Next ==
    \/ \E line \in Lines : Len(fed) < MaxLines /\ FeedLine(line)
    \/ EndOfFile

Spec == Init /\ [][Next]_vars

\* the same parser on the lines of a multi-line value
NextValue ==
    \/ \E line \in ValueLines : Len(fed) < MaxValueLines /\ FeedLine(line)
    \/ EndOfFile

SpecValue == Init /\ [][NextValue]_vars

\* the same parser on the lines of a multi-line comment
NextComment ==
    \/ \E line \in CommentLines :
           Len(fed) < MaxCommentLines /\ FeedLine(line)
    \/ EndOfFile

SpecComment == Init /\ [][NextComment]_vars

\* the same parser on comment lines and entry lines
NextPairs ==
    \/ \E line \in PairLines : Len(fed) < MaxPairLines /\ FeedLine(line)
    \/ EndOfFile

SpecPairs == Init /\ [][NextPairs]_vars

\* the same parser on lines that end in ";
NextClosing ==
    \/ \E line \in ClosingLines :
           Len(fed) < MaxClosingLines /\ FeedLine(line)
    \/ EndOfFile

SpecClosing == Init /\ [][NextClosing]_vars

\* the same parser on lines that hold a complete comment or value
NextStart ==
    \/ \E line \in StartLines : Len(fed) < MaxStartLines /\ FeedLine(line)
    \/ EndOfFile

SpecStart == Init /\ [][NextStart]_vars

\* the next line of the file both objects read: any line for the object
\* that is ahead, the line the other one was fed at that place for the
\* object that is behind
NextLineOf(objects, i, line) ==
    \A j \in 1..2 :
        Len(objects[j].fed) > Len(objects[i].fed)
            => line = objects[j].fed[Len(objects[i].fed) + 1]

\* one call of parse_line on the i-th object, at any time between the
\* calls on the other
FeedInstance(i, line) ==
    /\ ~instances[i].raised
    /\ NextLineOf(instances, i, line)
    /\ \E r \in {parse_line_on(instances, i, line)} :
           instances' = [instances EXCEPT
                           ![i] = AfterCall(instances[i], line, r)]
    /\ UNCHANGED <<parser, fed, out, localized_strings, pc, run, entries,
                   analysis>>

NextInstances ==
    \E i \in 1..2, line \in Lines :
        Len(instances[i].fed) < MaxSharedLines /\ FeedInstance(i, line)

SpecInstances == Init /\ [][NextInstances]_vars

\* analyse_source calls parse_file on the next .strings file
ParseNextFile(file) ==
    /\ run.pc = "files"
    /\ \E r \in {parse_file(file, read_file_encoding(file))} :
           run' = AfterFile(run, file, r)
    /\ UNCHANGED <<parser, fed, out, localized_strings, pc, instances,
                   entries, analysis>>

\* no file is left: analyse_source writes source_analysis_result.json
WriteReport ==
    /\ run.pc = "files"
    /\ run' = AfterReport(run)
    /\ UNCHANGED <<parser, fed, out, localized_strings, pc, instances,
                   entries, analysis>>

NextRun ==
    \/ \E file \in Files : Len(run.files) < MaxFiles /\ ParseNextFile(file)
    \/ WriteReport

SpecRun == Init /\ [][NextRun]_vars

\* LocalizedString(key, value, comment)
NewLocalizedString(key, value, comment) ==
    /\ entries' = [entries EXCEPT
                     !.heap = Append(entries.heap,
                                     LocalizedString(key, value, comment))]
    /\ UNCHANGED <<parser, fed, out, localized_strings, pc, instances, run,
                   analysis>>

\* heap[i] == heap[j], heap[i] != heap[j] and heap[i].__neq__(heap[j])
Compare(i, j) ==
    /\ entries' = [entries EXCEPT
                     !.compared = Returned(Comparison(entries.heap, i, j))]
    /\ UNCHANGED <<parser, fed, out, localized_strings, pc, instances, run,
                   analysis>>

\* heap[i].is_raw()
IsRaw(i) ==
    /\ entries' = [entries EXCEPT
                     !.raw = Returned([i |-> i,
                                       is_raw |-> is_raw(entries.heap[i])])]
    /\ UNCHANGED <<parser, fed, out, localized_strings, pc, instances, run,
                   analysis>>

NextEntries ==
    \/ \E key \in EntryKeys, value \in EntryValues,
          comment \in EntryComments :
           Len(entries.heap) < MaxObjects
               /\ NewLocalizedString(key, value, comment)
    \/ \E i \in 1..Len(entries.heap), j \in 1..Len(entries.heap) :
           Compare(i, j)
    \/ \E i \in 1..Len(entries.heap) : IsRaw(i)

SpecEntries == Init /\ [][NextEntries]_vars

\* one iteration of the loop over the source files: genstrings, the class
\* name, the strings of the class
AnalyseSourceFile(class_name, class_strings) ==
    /\ analysis.pc = "sources"
    /\ analysis' = [analysis EXCEPT
                      !.classes = source_file(analysis.classes, class_name,
                                              class_strings),
                      !.sources = analysis.sources + 1]
    /\ UNCHANGED <<parser, fed, out, localized_strings, pc, instances, run,
                   entries>>

\* one iteration of the loop over the xib and storyboard files
AnalyseIbFile(file) ==
    /\ analysis.pc \in {"sources", "ib"}
    /\ analysis' = [analysis EXCEPT
                      !.classes = ib_file(analysis.classes, file),
                      !.ib_files = Append(analysis.ib_files, file),
                      !.pc = "ib"]
    /\ UNCHANGED <<parser, fed, out, localized_strings, pc, instances, run,
                   entries>>

\* no file is left: the groupings are written
WriteGroupings ==
    /\ analysis.pc \in {"sources", "ib"}
    /\ analysis' = [analysis EXCEPT
                      !.groupings = Returned(groupings_of(analysis.classes)),
                      !.pc = "written"]
    /\ UNCHANGED <<parser, fed, out, localized_strings, pc, instances, run,
                   entries>>

NextAnalysis ==
    \/ \E class_name \in ClassNames \cup {None},
          class_strings \in SourceStrings :
           analysis.sources < MaxSources
               /\ AnalyseSourceFile(class_name, class_strings)
    \/ \E file \in IbFiles :
           Len(analysis.ib_files) < MaxIbFiles /\ AnalyseIbFile(file)
    \/ WriteGroupings

SpecAnalysis == Init /\ [][NextAnalysis]_vars

--------------------------------------------------------------------------
(* What the properties below speak of *)

\* the well-formed single-line entry lines "K" = "V"; with or without the
\* optional spaces around '=' and the line break
EntryLines(K, V) ==
    {EntryLine(K, V), CompactEntryLine(K, V),
     WithBreak(EntryLine(K, V)), WithBreak(CompactEntryLine(K, V))}

LastOut == out[Len(out)]

\* no call so far returned anything
NothingBefore(n) == \A i \in 1..(n - 1) : out[i] = Nothing

\* texts joined by single line breaks, in order
RECURSIVE JoinLines(_)
JoinLines(texts) ==
    IF Len(texts) = 1 THEN texts[1]
    ELSE JoinLines(SubSeq(texts, 1, Len(texts) - 1))
             \o <<NL>> \o texts[Len(texts)]

\* the line ends in lit
EndsIn(line, lit) == Lit(line, Len(line) - Len(lit) + 1, lit)

\* the line ends in lit followed by nothing but whitespace
EndsInThenSpaces(line, lit) ==
    \E i \in 1..Len(line) :
        /\ Lit(line, i, lit)
        /\ \A j \in (i + Len(lit))..Len(line) : line[j] \in SpaceChars

HasBreak(line) == \E i \in 1..Len(line) : line[i] = NL

\* fed[a..b], the lines between the first and the last of a structure
Between(a, b) == SubSeq(fed, a, b)

--------------------------------------------------------------------------
(* C1 *)

\* C1 as stated: a well-formed entry line "K" = "V"; fed to a fresh parser
\* makes parse_line return the entry (K, V, None).
C1_FreshEntryIsReturned ==
    \A K \in Texts, V \in Texts : \A line \in EntryLines(K, V) :
        fed = <<line>> => out = <<Returned(LocalizedString(K, V, None))>>

\* C1 as the code has it: a well-formed entry line "K" = "V"; fed to a
\* fresh parser returns nothing and leaves the parser in the initial state
\* COMMENT with no pending key, value or comment; the initial state tries
\* the trailing-comment, comment and comment-start matchers only.
C1_FreshEntryReturnsNothing ==
    Len(fed) = 1 =>
        \A K \in Texts, V \in Texts : \A line \in EntryLines(K, V) :
            fed = <<line>> =>
                /\ out = <<Nothing>>
                /\ parser.parse_state = ParseStates.COMMENT
                /\ parser.key = None /\ parser.value = None
                /\ parser.comment = None
                /\ localized_strings = {}

C1_Witness ==
    /\ fed = <<EntryLine(<<"k">>, <<"v">>)>>
    /\ Len(out) = 1
    /\ pc = "reading"

--------------------------------------------------------------------------
(* C2 *)

\* C2: a well-formed comment line /* C */ and then a well-formed entry
\* line "K" = "V";, with any number of blank lines before the comment and
\* between the two, fed to a fresh parser: nothing is returned before the
\* entry line, and the entry line returns (K, V, C).  The comment alone,
\* with blank lines around it, returns nothing.
C2_CommentThenEntry ==
    \A i \in 1..Len(fed) : \A C \in Texts :
        (/\ fed[i] = CommentLine(C)
         /\ \A n \in 1..(Len(fed) - 1) : n # i => fed[n] \in BlankLines)
        =>
        /\ NothingBefore(Len(fed))
        /\ i = Len(fed) => LastOut = Nothing
        /\ i < Len(fed) /\ fed[Len(fed)] \in BlankLines => LastOut = Nothing
        /\ \A K \in Texts, V \in Texts :
               i < Len(fed) /\ fed[Len(fed)] \in EntryLines(K, V)
               => LastOut = Returned(LocalizedString(K, V, C))

\* blank, comment, blank, entry: the entry comes back with the comment
C2_Witness ==
    /\ Len(fed) = 4
    /\ fed[1] \in BlankLines
    /\ fed[2] = CommentLine(<<"c">>)
    /\ fed[3] \in BlankLines
    /\ fed[4] = EntryLine(<<"k">>, <<"v">>)
    /\ LastOut = Returned(LocalizedString(<<"k">>, <<"v">>, <<"c">>))

--------------------------------------------------------------------------
(* C3 *)

\* C3: a well-formed line "K" = "V"; /* C */ fed in state COMMENT: that
\* call returns the entry (K, V, C) and the parser is in COMMENT afterwards.
C3_TrailingCommentEntry ==
    [][(/\ parser.parse_state = ParseStates.COMMENT
        /\ Len(fed') = Len(fed) + 1
        /\ SubSeq(fed', 1, Len(fed)) = fed)
       =>
       \A K \in Texts, V \in Texts, C \in Texts :
           fed'[Len(fed')] = TrailingLine(K, V, C)
           =>
           /\ out' = Append(out, Returned(LocalizedString(K, V, C)))
           /\ parser'.parse_state = ParseStates.COMMENT]_vars

\* the line is fed after an entry was returned, not only to a fresh parser
C3_Witness ==
    /\ Len(fed) = 3
    /\ out[2] # Nothing
    /\ fed[3] = TrailingLine(<<"k">>, <<"u">>, <<"d">>)
    /\ out[3] = Returned(LocalizedString(<<"k">>, <<"u">>, <<"d">>))
    /\ parser.parse_state = ParseStates.COMMENT

--------------------------------------------------------------------------
(* C4 *)

\* fed is /* C */, "K" = "V1, lines in between that all satisfy Mid, V2";
\* and the calls returned nothing but, on the last line, the entry
\* (K, V1 + line break + the lines in between + line break + V2, C)
ValueRoundTrip(Mid(_)) ==
    \A C \in Texts :
        Len(fed) >= 3 /\ fed[1] = CommentLine(C) =>
        \A K \in Texts, V1 \in Texts :
            fed[2] = ValueStartLine(K, V1) =>
            \A V2 \in Texts :
                (/\ fed[Len(fed)] = ValueEndLine(V2)
                 /\ \A i \in 3..(Len(fed) - 1) : Mid(fed[i]))
                =>
                /\ NothingBefore(Len(fed))
                /\ LastOut = Returned(LocalizedString(
                       K,
                       JoinLines(<<V1>> \o Between(3, Len(fed) - 1)
                                     \o <<V2>>),
                       C))

\* C4 as stated: the lines in between are non-empty and none ends in ";
C4_ValueRoundTripAsStated ==
    ValueRoundTrip(LAMBDA M : M # << >> /\ ~EndsIn(M, <<Q, ";">>))

\* C4 as the code has it: the lines in between are non-empty, hold no line
\* break, and none ends in a quote, an optional space, a semicolon and
\* optional whitespace (the value-end matcher is '" ?; ?$').
C4_ValueRoundTrip ==
    ValueRoundTrip(LAMBDA M : /\ M # << >>
                              /\ ~HasBreak(M)
                              /\ ~EndsInThenSpaces(M, <<Q, ";">>)
                              /\ ~EndsInThenSpaces(M, <<Q, SP, ";">>))

\* two different lines in between, joined in the order they were fed
C4_Witness ==
    /\ fed = <<CommentLine(<<"c">>), ValueStartLine(<<"k">>, <<"v">>),
               <<SP, "n">>, <<"m">>, ValueEndLine(<<"w">>)>>
    /\ LastOut = Returned(LocalizedString(
           <<"k">>, <<"v", NL, SP, "n", NL, "m", NL, "w">>, <<"c">>))

--------------------------------------------------------------------------
(* C5 *)

\* fed is '/* L1', lines in between that all satisfy Mid, 'L3*/' and an
\* entry line "K" = "V"; and the calls returned nothing but, on the entry
\* line, the entry (K, V, L1 + line break + the lines in between + line
\* break + L3)
CommentRoundTrip(Mid(_)) ==
    \A L1 \in Texts :
        Len(fed) >= 3 /\ fed[1] = CommentStartLine(L1) =>
        \A L3 \in {<<SP, "c", SP>>}, K \in Texts, V \in Texts :
            (/\ fed[Len(fed) - 1] = CommentEndLine(L3)
             /\ fed[Len(fed)] = EntryLine(K, V)
             /\ \A i \in 2..(Len(fed) - 2) : Mid(fed[i]))
            =>
            /\ NothingBefore(Len(fed))
            /\ LastOut = Returned(LocalizedString(
                   K, V,
                   JoinLines(<<L1>> \o Between(2, Len(fed) - 2)
                                 \o <<L3>>)))

\* C5 as stated: the lines in between are non-empty and none ends in */
C5_CommentRoundTripAsStated ==
    CommentRoundTrip(LAMBDA M : M # << >> /\ ~EndsIn(M, <<"*", "/">>))

\* C5 as the code has it: the lines in between are non-empty, hold no line
\* break, and none ends in */ followed by optional whitespace (the
\* comment-end matcher is '\*/\s*$').
C5_CommentRoundTrip ==
    CommentRoundTrip(LAMBDA M : /\ M # << >>
                                /\ ~HasBreak(M)
                                /\ ~EndsInThenSpaces(M, <<"*", "/">>))

\* the doctest's shape: a first line, a line in between kept verbatim, a
\* last line, the entry
C5_Witness ==
    /\ fed = <<CommentStartLine(<<"d">>), <<SP, "b">>, <<"x">>,
               CommentEndLine(<<SP, "c", SP>>),
               EntryLine(<<"k">>, <<"v">>)>>
    /\ LastOut = Returned(LocalizedString(
           <<"k">>, <<"v">>,
           <<"d", NL, SP, "b", NL, "x", NL, SP, "c", SP>>))

--------------------------------------------------------------------------
(* C6 *)

\* fed is n >= 1 pairs of a comment line and an entry line
IsPairs ==
    /\ Len(fed) >= 2
    /\ Len(fed) % 2 = 0
    /\ \A i \in 1..Len(fed) :
           IF i % 2 = 1
           THEN \E C \in Texts : fed[i] = CommentLine(C)
           ELSE \E K \in Texts, V \in Texts : fed[i] = EntryLine(K, V)

\* C6: n >= 1 pairs /* Ci */, "ki" = "vi"; fed in order to one parser:
\* every comment line returns nothing and the i-th entry line returns
\* (ki, vi, Ci), so n entries come out, in file order, each with the
\* comment of its own pair.
C6_PairsInOrder ==
    IsPairs =>
        \A i \in 1..(Len(fed) \div 2) :
            \A C \in Texts, K \in Texts, V \in Texts :
                (fed[2 * i - 1] = CommentLine(C)
                 /\ fed[2 * i] = EntryLine(K, V))
                =>
                /\ out[2 * i - 1] = Nothing
                /\ out[2 * i] = Returned(LocalizedString(K, V, C))

\* three pairs with different comments and keys
C6_Witness ==
    /\ fed = <<CommentLine(<<"c">>), EntryLine(<<"k">>, <<"v">>),
               CommentLine(<<"d">>), EntryLine(<<"j">>, <<"u">>),
               CommentLine(<<"c">>), EntryLine(<<"j">>, <<"u">>)>>
    /\ out[2] = Returned(LocalizedString(<<"k">>, <<"v">>, <<"c">>))
    /\ out[4] = Returned(LocalizedString(<<"j">>, <<"u">>, <<"d">>))
    /\ out[6] = Returned(LocalizedString(<<"j">>, <<"u">>, <<"c">>))

--------------------------------------------------------------------------
(* C7 *)

\* C7: no call of parse_line raises, whatever lines were fed; the stored
\* comment fragment is a text whenever the parser is in COMMENT_MULTILINE
\* and the stored value fragment is a text whenever it is in
\* STRING_MULTILINE, although the constructor assigns neither.
C7_NeverRaises ==
    /\ pc # "raised"
    /\ Len(out) = Len(fed)
    /\ \A i \in 1..Len(out) : Len(out[i]) <= 1
    /\ parser.parse_state = ParseStates.COMMENT_MULTILINE
           => IsText(parser.comment_partial)
    /\ parser.parse_state = ParseStates.STRING_MULTILINE
           => IsText(parser.value_partial)

\* both fragments were used: a multi-line comment was closed, and a line
\* was appended to the value fragment
C7_Witness ==
    /\ Len(fed) = 4
    /\ fed[1] = CommentStartLine(<<"c">>)
    /\ fed[2] = CommentEndLine(<<SP, "d", SP>>)
    /\ fed[3] = ValueStartLine(<<"k">>, <<"v">>)
    /\ fed[4] = <<"x">>
    /\ parser.parse_state = ParseStates.STRING_MULTILINE
    /\ parser.value_partial = <<"v", NL, "x">>
    /\ parser.comment = <<"c", NL, SP, "d", SP>>
    /\ pc = "reading"

--------------------------------------------------------------------------
(* C8 *)

\* the dictionary parse_file builds from the values returned so far
RECURSIVE Folded(_)
Folded(outs) ==
    IF outs = << >> THEN {}
    ELSE IF outs[Len(outs)] = Nothing
    THEN Folded(SubSeq(outs, 1, Len(outs) - 1))
    ELSE SetItem(Folded(SubSeq(outs, 1, Len(outs) - 1)),
                 outs[Len(outs)][1].key, outs[Len(outs)][1].value)

Dangling ==
    {ParseStates.STRING, ParseStates.STRING_MULTILINE,
     ParseStates.COMMENT_MULTILINE}

\* C8: when the lines end while the parser is in STRING, STRING_MULTILINE
\* or COMMENT_MULTILINE, nothing is returned for the pending key, comment
\* or fragment and nothing raises: the result of parse_file holds the
\* entries returned by the calls, and no others.
C8_DanglingIsLost ==
    pc = "done" /\ parser.parse_state \in Dangling =>
        /\ Len(out) = Len(fed)
        /\ localized_strings = Folded(out)
        /\ \A kv \in localized_strings :
               \E i \in 1..Len(out) :
                   out[i] # Nothing /\ out[i][1].key = kv[1]

\* an entry was returned, then the file ends inside a multi-line value
\* with another key
C8_Witness ==
    /\ pc = "done"
    /\ fed = <<CommentLine(<<"c">>),
               WithBreak(CompactEntryLine(<<"j">>, <<"j">>)),
               CommentLine(<<"c">>),
               ValueStartLine(<<"k">>, <<"v">>)>>
    /\ parser.parse_state = ParseStates.STRING_MULTILINE
    /\ parser.key = <<"k">>
    /\ localized_strings = {<< <<"j">>, <<"j">> >>}

--------------------------------------------------------------------------
(* C9 *)

\* C9: every entry parse_line returned has a non-empty key and a value,
\* neither is None.
C9_EntriesAreResolved ==
    \A i \in 1..Len(out) :
        out[i] # Nothing =>
            /\ IsText(out[i][1].key)
            /\ out[i][1].key # << >>
            /\ IsText(out[i][1].value)

\* entries of all three emitting paths were returned
C9_Witness ==
    /\ Len(out) = 4
    /\ fed[1] = TrailingLine(<<"k">>, <<"u">>, <<"d">>)
    /\ out[1] # Nothing
    /\ fed[2] = CommentLine(<<"c">>)
    /\ fed[3] = ValueStartLine(<<"k">>, <<"v">>)
    /\ fed[4] = ValueEndLine(<<"w">>)
    /\ out[4] = Returned(LocalizedString(<<"k">>, <<"v", NL, "w">>,
                                         <<"c">>))

--------------------------------------------------------------------------
(* C10 *)

\* C10: after a call of parse_line that returned an entry the parser is in
\* the initial state COMMENT, whatever state the call started in.
C10_InitialAfterEntry ==
    Len(out) > 0 /\ LastOut # Nothing
        => parser.parse_state = ParseStates.COMMENT

\* the entry was returned by the call that closed a multi-line value
C10_Witness ==
    /\ Len(fed) = 3
    /\ fed[2] = ValueStartLine(<<"k">>, <<"v">>)
    /\ fed[3] = ValueEndLine(<<"w">>)
    /\ LastOut # Nothing
    /\ parser.parse_state = ParseStates.COMMENT

--------------------------------------------------------------------------
(* C11 *)

\* nothing is stored in the attribute: it is None or was never assigned
Absent(x) == ~IsText(x)

\* what the calls of parse_line return, one after the other, for these
\* lines fed to a parser in this state
RECURSIVE ReturnsOf(_, _)
ReturnsOf(self, lines) ==
    IF lines = << >> THEN << >>
    ELSE <<parse_line(self, lines[1]).ret>>
             \o ReturnsOf(parse_line(self, lines[1]).self,
                          SubSeq(lines, 2, Len(lines)))

\* C11: after every call of parse_line that returned an entry, key, value,
\* comment, comment_partial and value_partial hold nothing, and what the
\* parser returns from then on is what a new parser returns for the lines
\* fed after that call: no later entry takes a key, value, comment or
\* fragment from before it.
C11_NothingInherited ==
    /\ Len(out) > 0 /\ LastOut # Nothing =>
           /\ Absent(parser.key) /\ Absent(parser.value)
           /\ Absent(parser.comment)
           /\ Absent(parser.comment_partial)
           /\ Absent(parser.value_partial)
    /\ \A i \in 1..Len(out) :
           out[i] # Nothing =>
               SubSeq(out, i + 1, Len(out))
                   = ReturnsOf(NewParser, SubSeq(fed, i + 1, Len(fed)))

\* an entry with a multi-line comment was returned and the fragment was
\* dropped; the next entry has the comment of its own line
C11_Witness ==
    /\ fed = <<CommentStartLine(<<"c">>), CommentEndLine(<<SP, "d", SP>>),
               EntryLine(<<"k">>, <<"v">>),
               TrailingLine(<<"k">>, <<"u">>, <<"d">>)>>
    /\ out[3] = Returned(LocalizedString(
           <<"k">>, <<"v">>, <<"c", NL, SP, "d", SP>>))
    /\ out[4] = Returned(LocalizedString(<<"k">>, <<"u">>, <<"d">>))
    /\ parser.comment_partial = None
    /\ parser.value_partial = Unset
    /\ parser.key = None

--------------------------------------------------------------------------
(* C12 *)

\* C12: between calls, comment_partial holds a text only in state
\* COMMENT_MULTILINE and value_partial holds a text only in state
\* STRING_MULTILINE, so the two fragments are never both stored.
C12_OneFragmentAtATime ==
    /\ IsText(parser.comment_partial)
           => parser.parse_state = ParseStates.COMMENT_MULTILINE
    /\ IsText(parser.value_partial)
           => parser.parse_state = ParseStates.STRING_MULTILINE
    /\ ~(IsText(parser.comment_partial) /\ IsText(parser.value_partial))

\* a value fragment is stored after a comment fragment was
C12_Witness ==
    /\ fed = <<CommentStartLine(<<"c">>), <<"x">>,
               CommentEndLine(<<SP, "d", SP>>),
               ValueStartLine(<<"k">>, <<"v">>)>>
    /\ parser.parse_state = ParseStates.STRING_MULTILINE
    /\ parser.value_partial = <<"v">>
    /\ parser.comment_partial = None
    /\ parser.comment = <<"c", NL, "x", NL, SP, "d", SP>>

--------------------------------------------------------------------------
(* C13 *)

--------------------------------------------------------------------------
(* C14 *)

\* none of the matchers parse_line tries in this state matches the line
NoMatch(self, line) ==
    IF self.parse_state = ParseStates.COMMENT
    THEN /\ parse_trailing_comment(line) = <<None, None, None>>
         /\ parse_comment(line) = None
         /\ parse_multiline_comment_start(line) = None
    ELSE IF self.parse_state = ParseStates.COMMENT_MULTILINE
    THEN /\ parse_multiline_comment_end(line) = None
         /\ parse_multiline_comment_line(line) = None
    ELSE IF self.parse_state = ParseStates.TRAILING_COMMENT
    THEN parse_comment(line) = None
    ELSE IF self.parse_state = ParseStates.STRING
    THEN /\ parse_localized_pair(line) = <<None, None>>
         /\ parse_multiline_start(line) = <<None, None>>
    ELSE /\ parse_multiline_end(line) = None
         /\ parse_multiline_line(line) = None

\* the same text, or nothing before and nothing after
SameStored(x, y) == x = y \/ (Absent(x) /\ Absent(y))

\* C14: a call with a line that matches none of the matchers tried in the
\* current state returns nothing and leaves parse_state, key, value,
\* comment and both fragments as they were (a fragment that held nothing
\* still holds nothing); and an entry returned by a call made in STRING or
\* STRING_MULTILINE has the comment that was pending before the call.  So
\* the comment stored on the way into STRING is the comment of the entry,
\* whatever lines that match nothing, /* C2 */ lines among them, come in
\* between.
C14_NoMatchIsDiscarded ==
    [][/\ \A line \in Lines :
              (fed' = Append(fed, line) /\ NoMatch(parser, line))
              =>
              /\ out' = Append(out, Nothing)
              /\ localized_strings' = localized_strings
              /\ parser'.parse_state = parser.parse_state
              /\ parser'.key = parser.key
              /\ parser'.value = parser.value
              /\ parser'.comment = parser.comment
              /\ SameStored(parser'.comment_partial, parser.comment_partial)
              /\ SameStored(parser'.value_partial, parser.value_partial)
       /\ (/\ parser.parse_state
                 \in {ParseStates.STRING, ParseStates.STRING_MULTILINE}
           /\ Len(out') > Len(out)
           /\ out'[Len(out')] # Nothing)
          => out'[Len(out')][1].comment = parser.comment]_vars

\* a multi-line comment is pending, a /* c */ line is fed and discarded,
\* and the entry has the pending comment
C14_Witness ==
    /\ fed = <<CommentStartLine(<<"c">>), CommentEndLine(<<SP, "d", SP>>),
               CommentLine(<<"c">>), EntryLine(<<"k">>, <<"v">>)>>
    /\ out[3] = Nothing
    /\ out[4] = Returned(LocalizedString(
           <<"k">>, <<"v">>, <<"c", NL, SP, "d", SP>>))

--------------------------------------------------------------------------
(* C15 *)

\* the calls that returned an entry
EmissionsOf(outs) == {i \in 1..Len(outs) : outs[i] # Nothing}
Emissions == EmissionsOf(out)

\* the keys of the dictionary are the keys of the returned entries, and
\* each has the value of the last returned entry with that key
LastWrites(strings, outs) ==
    /\ {kv[1] : kv \in strings} = {outs[i][1].key : i \in EmissionsOf(outs)}
    /\ \A kv \in strings :
           \E i \in EmissionsOf(outs) :
               /\ outs[i][1].key = kv[1]
               /\ outs[i][1].value = kv[2]
               /\ \A j \in EmissionsOf(outs) :
                      j > i => outs[j][1].key # kv[1]

\* C15: parse_file gives every line of the file, in file order, to one
\* parser, each call made on the parser the call before left; when it
\* returns, the keys of its dictionary are the keys of the entries the
\* parser returned, and each key has the value of the last returned entry
\* with that key.
C15_LastWriteWins ==
    [][/\ Len(fed') = Len(fed) + 1 =>
              /\ SubSeq(fed', 1, Len(fed)) = fed
              /\ out' = Append(out,
                               parse_line(parser, fed'[Len(fed')]).ret)
              /\ parser' = parse_line(parser, fed'[Len(fed')]).self
       /\ Len(fed') \in {Len(fed), Len(fed) + 1}
       /\ pc' = "done" =>
              /\ Len(out') = Len(fed')
              /\ LastWrites(localized_strings', out')]_vars

\* the key k was returned twice, with two values, and the last line of
\* the file returned nothing
C15_Witness ==
    /\ pc = "done"
    /\ fed = <<CommentLine(<<"c">>), EntryLine(<<"k">>, <<"v">>),
               TrailingLine(<<"k">>, <<"u">>, <<"d">>), <<"x">> >>
    /\ Emissions = {2, 3}
    /\ localized_strings = {<< <<"k">>, <<"u">> >>}

--------------------------------------------------------------------------
(* C16 *)

\* the first of ENCODINGS, in order, under which the file decodes
FirstThatDecodes(file) ==
    IF file.decodes = {} THEN False
    ELSE ENCODINGS[CHOOSE i \in 1..Len(ENCODINGS) :
                       /\ ENCODINGS[i] \in file.decodes
                       /\ \A j \in 1..(i - 1) :
                              ENCODINGS[j] \notin file.decodes]

\* C16 as stated: the encoding used for a file is the first of utf-8,
\* utf-16, utf-16-le, utf-16-be under which it decodes, and a file that
\* decodes under none of them is skipped: the run goes on with the other
\* files and the report is written.
C16_DecodeFailureIsSkipped ==
    /\ \A i \in 1..Len(run.files) :
           read_file_encoding(run.files[i]) = FirstThatDecodes(run.files[i])
    /\ run.pc # "raised"

\* what the code does: a file that decodes under no encoding ends the
\* run, after a file that was parsed, with no report
C16_Witness ==
    /\ Len(run.files) = 2
    /\ run.files[1].decodes = {"utf-16-be"}
    /\ Len(run.class_strings) = 1
    /\ run.files[2].decodes = {}
    /\ run.pc = "raised"
    /\ run.report = Nothing

--------------------------------------------------------------------------
(* C17 *)

\* the two objects of the last comparison
Left == entries.heap[entries.compared[1].i]
Right == entries.heap[entries.compared[1].j]

\* C17 as stated: two entries compare equal with == exactly when their
\* key, value and comment are equal, a comment that is None being equal
\* to None only; and != on two entries gives the opposite of ==.
C17_EqualityLaw ==
    entries.compared # Nothing =>
        /\ entries.compared[1].eq
               <=> (/\ Left.key = Right.key
                    /\ Left.value = Right.value
                    /\ Left.comment = Right.comment)
        /\ (Left.comment = None) # (Right.comment = None)
               => ~entries.compared[1].eq
        /\ entries.compared[1].ne = ~entries.compared[1].eq

\* what the code does: two objects with the same key, value and comment
\* are equal by == and unequal by !=, while __neq__, called by its name,
\* gives the opposite of ==
C17_Witness ==
    /\ entries.compared # Nothing
    /\ entries.compared[1].i # entries.compared[1].j
    /\ Left = LocalizedString(<<"k">>, <<"K">>, <<"c">>)
    /\ Right = LocalizedString(<<"k">>, <<"K">>, <<"c">>)
    /\ entries.compared[1].eq
    /\ entries.compared[1].ne
    /\ ~entries.compared[1].neq

--------------------------------------------------------------------------
(* C18 *)

\* the same characters at the same places
SameText(a, b) ==
    /\ IsText(a) /\ IsText(b)
    /\ Len(a) = Len(b)
    /\ \A n \in 1..Len(a) : a[n] = b[n]

\* the object is_raw was last called on
Asked == entries.heap[entries.raw[1].i]

\* C18: is_raw is true exactly when the value is the key, character for
\* character: a value that differs from the key in case or by a space at
\* its end is not raw, and the comment makes no difference.
C18_IsRawIffValueIsKey ==
    entries.raw # Nothing =>
        /\ entries.raw[1].is_raw <=> SameText(Asked.value, Asked.key)
        /\ Asked.key = <<"k">> /\ Asked.value \in {<<"K">>, <<"k", SP>>}
               => ~entries.raw[1].is_raw
        /\ \A i \in 1..Len(entries.heap) :
               (/\ entries.heap[i].key = Asked.key
                /\ entries.heap[i].value = Asked.value)
               => is_raw(entries.heap[i]) = entries.raw[1].is_raw

\* is_raw was called on an entry whose value is its key, and on one whose
\* value is its key in the other case; the two have different comments
C18_Witness ==
    /\ Len(entries.heap) = 2
    /\ entries.heap[1] = LocalizedString(<<"K">>, <<"K">>, None)
    /\ entries.heap[2] = LocalizedString(<<"K">>, <<"k">>, <<"c">>)
    /\ entries.raw = Returned([i |-> 2, is_raw |-> FALSE])
    /\ is_raw(entries.heap[1])

--------------------------------------------------------------------------
(* C19 *)

\* the changes of parse_state the claim lists
StateChanges ==
    {<<ParseStates.COMMENT, ParseStates.STRING>>,
     <<ParseStates.COMMENT, ParseStates.COMMENT_MULTILINE>>,
     <<ParseStates.COMMENT_MULTILINE, ParseStates.STRING>>,
     <<ParseStates.STRING, ParseStates.STRING_MULTILINE>>,
     <<ParseStates.STRING, ParseStates.COMMENT>>,
     <<ParseStates.STRING_MULTILINE, ParseStates.COMMENT>>}

\* C19: parse_state changes only from COMMENT to STRING or
\* COMMENT_MULTILINE, from COMMENT_MULTILINE to STRING, from STRING to
\* STRING_MULTILINE, and from STRING or STRING_MULTILINE to COMMENT; the
\* parser comes back to COMMENT only in a call that returns an entry.
C19_NoAbandonPath ==
    [][parser'.parse_state # parser.parse_state =>
           /\ <<parser.parse_state, parser'.parse_state>> \in StateChanges
           /\ parser'.parse_state = ParseStates.COMMENT =>
                  /\ Len(out') = Len(out) + 1
                  /\ out'[Len(out')] # Nothing]_vars

\* a multi-line comment, then a multi-line value, then the entry: four of
\* the six changes, the last one the return to COMMENT
C19_Witness ==
    /\ fed = <<CommentStartLine(<<"c">>), CommentEndLine(<<SP, "d", SP>>),
               ValueStartLine(<<"k">>, <<"v">>), ValueEndLine(<<"w">>)>>
    /\ out[3] = Nothing
    /\ out[4] # Nothing
    /\ parser.parse_state = ParseStates.COMMENT

--------------------------------------------------------------------------
(* C20 *)

\* the line without its line break
Chomp(line) ==
    IF line # << >> /\ line[Len(line)] = NL
    THEN SubSeq(line, 1, Len(line) - 1)
    ELSE line

\* the line ends in "; and this is its text up to that quote
EndsValue(line) == EndsIn(Chomp(line), <<Q, ";">>)
UpToQuote(line) == SubSeq(Chomp(line), 1, Len(Chomp(line)) - 2)

\* the call returned the pending key with the value closed by this line
ClosedBy(line) ==
    /\ out' = Append(out, Returned(LocalizedString(
                  parser.key,
                  parser.value_partial \o <<NL>> \o UpToQuote(line),
                  parser.comment)))
    /\ parser'.parse_state = ParseStates.COMMENT

\* the call returned nothing and the line is one more line of the value
AppendedToValue(line) ==
    /\ out' = Append(out, Nothing)
    /\ parser'.parse_state = ParseStates.STRING_MULTILINE
    /\ parser'.key = parser.key
    /\ parser'.value_partial
           = parser.value_partial \o <<NL>> \o Chomp(line)

\* C20 as stated: in STRING_MULTILINE every line that ends in "; closes
\* the pending value: the call returns the key of the value-start line
\* with the stored fragment, a line break and the line up to its last
\* quote, also when the line is an entry line "K2" = "V2"; of its own;
\* lines that do not end in "; , comment lines and entry-start lines among
\* them, are appended to the value.
C20_EveryEndClosesAsStated ==
    [][\A line \in ClosingLines :
          (/\ parser.parse_state = ParseStates.STRING_MULTILINE
           /\ fed' = Append(fed, line))
          => IF EndsValue(line)
             THEN ClosedBy(line)
             ELSE AppendedToValue(line)]_vars

\* C20 as the code has it: the same for the lines that have at least one
\* character before the closing quote; the line "; alone does not match
\* the value-end matcher '^(.+)" ?; ?$' and is appended to the value like
\* any other line.
C20_EndClosesValue ==
    [][\A line \in ClosingLines :
          (/\ parser.parse_state = ParseStates.STRING_MULTILINE
           /\ fed' = Append(fed, line))
          => IF EndsValue(line) /\ UpToQuote(line) # << >>
             THEN ClosedBy(line)
             ELSE AppendedToValue(line)]_vars

\* a comment line, the line "; and an entry-start line were appended, and
\* an entry line with the key j closed the value of the key k
C20_Witness ==
    /\ fed = <<CommentLine(<<"c">>), ValueStartLine(<<"k">>, <<"v">>),
               CommentLine(<<"c">>), <<Q, ";">>,
               EntryLine(<<"j">>, <<"u">>)>>
    /\ LastOut = Returned(LocalizedString(
           <<"k">>,
           <<"v", NL>> \o CommentLine(<<"c">>) \o <<NL, Q, ";", NL>>
               \o <<Q, "j", Q, SP, "=", SP, Q, "u">>,
           <<"c">>))
    /\ \A i \in Emissions : out[i][1].key # <<"j">>

--------------------------------------------------------------------------
(* C21 *)

\* the text holds a quote
HasQuote(text) == \E i \in 1..Len(text) : text[i] = Q

\* the lines of SpecStart with a complete quoted value that are not a
\* plain entry line
CompleteValueLines ==
    {TrailingLine(<<"k">>, <<"u">>, <<"d">>), EmptyValueLine(<<"k">>)}

\* C21 as stated: the value-start matcher matches only lines
\* "KEY" = "VALUE_FRAGMENT whose value part has no closing quote; so in
\* STRING a line with a complete quoted value that is not a plain entry
\* line, "K" = "V"; /* C */ or "K" = ""; , matches nothing: the call
\* returns nothing and the parser does not move to STRING_MULTILINE.
C21_CompleteValueStartsNothing ==
    [][\A line \in StartLines :
          (/\ parser.parse_state = ParseStates.STRING
           /\ fed' = Append(fed, line))
          =>
          /\ parse_multiline_start(line)[2] # None
                 => ~HasQuote(parse_multiline_start(line)[2])
          /\ line \in CompleteValueLines
                 => /\ out' = Append(out, Nothing)
                    /\ parser'.parse_state = ParseStates.STRING]_vars

\* what the code does: after a comment, the line "k" = "u"; /* d */ is
\* taken as the first line of a multi-line value of the key k, and the
\* entry line after it closes that value, so no entry with the key j is
\* returned
C21_Witness ==
    /\ fed = <<CommentLine(<<"c">>),
               TrailingLine(<<"k">>, <<"u">>, <<"d">>),
               EntryLine(<<"j">>, <<"u">>)>>
    /\ out[2] = Nothing
    /\ LastOut = Returned(LocalizedString(
           <<"k">>,
           <<"u", Q, ";", SP>> \o CommentLine(<<"d">>)
               \o <<NL, Q, "j", Q, SP, "=", SP, Q, "u">>,
           <<"c">>))
    /\ localized_strings = {<<<<"k">>, LastOut[1].value>>}

--------------------------------------------------------------------------
(* C22 *)

\* the text lit is in the line at place i or after it
LitFrom(line, i, lit) == \E n \in i..Len(line) : Lit(line, n, lit)

\* the line holds a complete comment /* C */
HasCompleteComment(line) ==
    \E i \in 1..Len(line) :
        /\ Lit(line, i, <<"/", "*", SP>>)
        /\ LitFrom(line, i + 4, <<SP, "*", "/">>)

\* C22 as stated: the comment-start matcher matches only lines
\* /* COMMENT_FRAGMENT with no closing */ ; so in COMMENT no line that
\* holds a complete comment /* C */, with or without whitespace after the
\* */, moves the parser to COMMENT_MULTILINE.
C22_CompleteCommentStartsNothing ==
    [][\A line \in StartLines :
          (/\ parser.parse_state = ParseStates.COMMENT
           /\ fed' = Append(fed, line))
          =>
          /\ parse_multiline_comment_start(line) # None
                 => ~LitFrom(parse_multiline_comment_start(line), 1,
                             <<"*", "/">>)
          /\ HasCompleteComment(line)
                 => parser'.parse_state
                        # ParseStates.COMMENT_MULTILINE]_vars

\* what the code does: the line /* c */ with a space after it is taken as
\* the first line of a multi-line comment, the entry line after it as a
\* line of that comment, and nothing is returned
C22_Witness ==
    /\ fed = <<CommentLine(<<"c">>) \o <<SP>>, EntryLine(<<"j">>, <<"u">>)>>
    /\ out = <<Nothing, Nothing>>
    /\ parser.parse_state = ParseStates.COMMENT_MULTILINE
    /\ parser.comment_partial
           = <<"c", SP, "*", "/", SP, NL>> \o EntryLine(<<"j">>, <<"u">>)

--------------------------------------------------------------------------
(* C23 *)

\* the number of line breaks in the text
Breaks(text) == Cardinality({i \in 1..Len(text) : text[i] = NL})

\* the line fed in this step
FedLine == fed'[Len(fed')]

\* a call of parse_line in COMMENT_MULTILINE on a line that the
\* comment-end matcher does not take
ContinuationStep ==
    /\ parser.parse_state = ParseStates.COMMENT_MULTILINE
    /\ Len(fed') = Len(fed) + 1
    /\ parse_multiline_comment_end(FedLine) = None

\* the call returned nothing, the state is unchanged and the line, without
\* its line break, is appended to the stored fragment after a line break
AppendedToComment ==
    /\ out' = Append(out, Nothing)
    /\ parser'.parse_state = ParseStates.COMMENT_MULTILINE
    /\ parser'.comment_partial
           = parser.comment_partial \o <<NL>> \o Chomp(FedLine)

\* C23 as stated: in COMMENT_MULTILINE every line that the comment-end
\* matcher does not take is a line in between: the continuation matcher
\* matches any line, the whole line is appended after one line break and
\* the state is unchanged, so every line consumed after the first adds one
\* line break to the comment.
C23_EveryLineIsAppended ==
    [][ContinuationStep => AppendedToComment]_vars

\* C23 as the code has it: the same for the lines that have at least one
\* character other than their line break; the empty line and the line
\* that is a line break alone do not match '^(.+)$': they are dropped, the
\* stored fragment and the state are unchanged.  So the line breaks in
\* the final comment are as many as the lines consumed after the first
\* that are not blank in this sense, the closing line among them.
C23_NonBlankLineIsAppended ==
    [][(ContinuationStep =>
            IF Chomp(FedLine) # << >>
            THEN AppendedToComment
            ELSE out' = Append(out, Nothing) /\ parser' = parser)
       /\ ((/\ parser.parse_state = ParseStates.COMMENT_MULTILINE
            /\ parser'.parse_state = ParseStates.STRING)
           => Breaks(parser'.comment)
                  = Breaks(parser.comment_partial) + 1)
       /\ ((/\ parser.parse_state = ParseStates.COMMENT
            /\ parser'.parse_state = ParseStates.COMMENT_MULTILINE)
           => Breaks(parser'.comment_partial) = 0)]_vars

\* three lines were consumed after the first, one of them a line break
\* alone, and the comment has two line breaks
C23_Witness ==
    /\ fed = <<CommentStartLine(<<"c">>), <<NL>>, <<"x">>,
               CommentEndLine(<<SP, "d", SP>>)>>
    /\ parser.parse_state = ParseStates.STRING
    /\ parser.comment = <<"c", NL, "x", NL, SP, "d", SP>>

--------------------------------------------------------------------------
(* C24 *)

\* the four states the parser is ever in
ReachableStates ==
    {ParseStates.COMMENT, ParseStates.STRING,
     ParseStates.STRING_MULTILINE, ParseStates.COMMENT_MULTILINE}

\* C24: no call of parse_line leaves the parser in TRAILING_COMMENT: the
\* state is always one of COMMENT, STRING, STRING_MULTILINE and
\* COMMENT_MULTILINE; the call that takes the last line of a multi-line
\* value returns the entry at once and leaves the parser in COMMENT, and
\* STRING_MULTILINE is left in no other way.
C24_TrailingStateUnreachable ==
    [][/\ parser'.parse_state \in ReachableStates
       /\ (/\ parser.parse_state = ParseStates.STRING_MULTILINE
           /\ Len(fed') = Len(fed) + 1
           /\ (\/ parse_multiline_end(FedLine) # None
               \/ parser'.parse_state # ParseStates.STRING_MULTILINE))
          => /\ parse_multiline_end(FedLine) # None
             /\ out' = Append(out, Returned(LocalizedString(
                           parser.key,
                           parser.value_partial \o <<NL>>
                               \o parse_multiline_end(FedLine),
                           parser.comment)))
             /\ parser'.parse_state = ParseStates.COMMENT]_vars

\* the last line of a multi-line value returned the entry, and the
\* comment line after it is the comment of the next entry
C24_Witness ==
    /\ fed = <<CommentLine(<<"c">>), ValueStartLine(<<"k">>, <<"v">>),
               ValueEndLine(<<"w">>), CommentLine(<<"c">>)>>
    /\ out[3] = Returned(LocalizedString(
                    <<"k">>, <<"v", NL, "w">>, <<"c">>))
    /\ out[4] = Nothing
    /\ parser.parse_state = ParseStates.STRING
    /\ parser.comment = <<"c">>

--------------------------------------------------------------------------
(* C25 *)

\* C25: every entry parse_line returns has a comment that is a text, not
\* None; and whenever the parser is in STRING or STRING_MULTILINE the
\* pending comment is a text.
C25_CommentAlwaysPresent ==
    /\ \A i \in Emissions : IsText(out[i][1].comment)
    /\ parser.parse_state \in {ParseStates.STRING,
                                ParseStates.STRING_MULTILINE}
           => IsText(parser.comment)

\* a multi-line comment is pending while a multi-line value is read, and
\* the entry comes back with it
C25_Witness ==
    /\ fed = <<CommentStartLine(<<"c">>), CommentEndLine(<<SP, "d", SP>>),
               ValueStartLine(<<"k">>, <<"v">>), ValueEndLine(<<"w">>)>>
    /\ LastOut = Returned(LocalizedString(
           <<"k">>, <<"v", NL, "w">>, <<"c", NL, SP, "d", SP>>))
    /\ Emissions = {4}

--------------------------------------------------------------------------
(* C26 *)

\* the string items find_strings_in_ib_file finds in an xib file
FoundIn(file) == find_strings_in_ib_file(file.elements, file.filename, << >>)

\* the report has a grouping of this class with the key and file of the
\* string item among its phrases
IsPhraseOf(class_name, item) ==
    \E grouping \in analysis.groupings[1] :
        /\ grouping.name = class_name
        /\ \E n \in 1..Len(grouping.phrases) :
               grouping.phrases[n] = [key |-> item.key, file |-> item.file]

\* C26 as stated: for every xib file that has a .strings file of its name
\* and whose File's Owner names a custom class, the strings found in it
\* are phrases of the grouping of that class in the report, whether or
\* not the class had strings from source files.
C26_XibStringsAreGrouped ==
    analysis.pc = "written" =>
        \A i \in 1..Len(analysis.ib_files) :
            (/\ analysis.ib_files[i].extension = "xib"
             /\ analysis.ib_files[i].localized_file # None
             /\ analysis.ib_files[i].owner # None)
            => \A n \in 1..Len(FoundIn(analysis.ib_files[i])) :
                   IsPhraseOf(analysis.ib_files[i].owner,
                              FoundIn(analysis.ib_files[i])[n])

\* what the code does: no source file gave strings for B; the label of
\* the xib file whose File's Owner is B is not in the report, the label of
\* the storyboard's view controller of class B is
C26_Witness ==
    /\ analysis.pc = "written"
    /\ analysis.ib_files
           = <<Xib(<<"V.strings">>, <<"B">>, <<Label>>),
               Storyboard(<<ViewController(<<"B">>, None, <<Label>>)>>)>>
    /\ analysis.groupings
           = Returned({[name |-> <<"B">>,
                        phrases |-> <<[key |-> <<"l1", "text">>,
                                       file |-> "M.strings"]>>]})

==========================================================================
